---- MODULE Spec2Model ----
(***************************************************************************)
(* Decoding loop, sampling and attention cache of web-llm.                 *)
(*                                                                         *)
(*   chat.py      ModelWrapper.generate, sample_top_p, the two model       *)
(*                backends (get_tvm_model.Model, get_pytorch_model.Model)  *)
(*   dolly.py     GPTNeoXAttention.forward (cache append, then view)       *)
(*                                                                         *)
(* A generate call is a Python generator: the caller creates it (Call),    *)
(* its first resumption runs the preamble (Begin), every loop iteration is *)
(* one Body step, and a resumption after a yield is AfterYield.  Control   *)
(* is with the caller exactly when no generator is inside its loop.        *)
(***************************************************************************)
EXTENDS Integers, Sequences, FiniteSets, TLC

\* ---------------------------------------------------------------- bounds
MaxPromptLen == 2
MaxGenLen == 3
MaxInterval == 2
MaxLogit == 1
MaxWeight == 2
TopPDen == 4
NUM_HIDDEN_LAYERS == 2
max_position_embeddings == 3

\* Two generate calls are modelled, a first one and a later one: what a
\* later call meets is the cache an earlier call left behind, whichever
\* call that was.
Seqs == {1, 2}

MaxCalls == Cardinality(Seqs)
Buffers == 1..(NUM_HIDDEN_LAYERS * 2)

\* ------------------------------------------------------------- tokenizer
\* Three token ids: the end-of-sequence id (a special token, dropped by
\* decode(skip_special_tokens=True)) and two one-character text tokens.
eos_token_id == 0
Vocab == {0, 1, 2}
Chars == {"a", "#"}

EncodeChar(c) == IF c = "a" THEN 1 ELSE 2

Encode(text) == [k \in 1..Len(text) |-> EncodeChar(text[k])]

Piece(t) == IF t = 1 THEN <<"a">> ELSE IF t = 2 THEN <<"#">> ELSE <<>>

RECURSIVE DecodeTo(_, _)
DecodeTo(toks, k) ==
    IF k = 0 THEN <<>> ELSE DecodeTo(toks, k - 1) \o Piece(toks[k])

\* tokenizer.decode(toks, skip_special_tokens=True)
Decode(toks) == DecodeTo(toks, Len(toks))

\* ------------------------------------------------------- string helpers
\* sub occurs in text at 0-based index i
OccursAt(text, sub, i) ==
    /\ i >= 0
    /\ i + Len(sub) <= Len(text)
    /\ SubSeq(text, i + 1, i + Len(sub)) = sub

SetMax(S) == CHOOSE x \in S : \A y \in S : y <= x

SetMin(S) == CHOOSE x \in S : \A y \in S : x <= y

\* str.rfind(sub, start): the highest index >= start, or -1
RFind(text, sub, start) ==
    LET hits == {i \in start..Len(text) : OccursAt(text, sub, i)}
    IN  IF hits = {} THEN 0 - 1 ELSE SetMax(hits)

\* output[:pos]
Prefix(text, pos) == SubSeq(text, 1, pos)

RECURSIVE SumTo(_, _)
SumTo(f, k) == IF k = 0 THEN 0 ELSE SumTo(f, k - 1) + f[k]

\* -------------------------------------------------------------- sampling
LogitVectors == [Vocab -> 0..MaxLogit]

\* torch.argmax: the first index holding the maximal value
Argmax(logits) ==
    CHOOSE t \in Vocab :
        /\ \A u \in Vocab : logits[u] <= logits[t]
        /\ \A u \in Vocab : u < t => logits[u] < logits[t]

\* torch.softmax(logits / temperature): positive, order preserving, equal
\* logits give equal probabilities.  A probability vector is a vector of
\* weights w, the probability of t being w[t] / (sum of w).
Softmax(logits) ==
    {w \in [Vocab -> 1..MaxWeight] :
        \A i, j \in Vocab :
            /\ logits[i] > logits[j] => w[i] >= w[j]
            /\ logits[i] = logits[j] => w[i] = w[j]}

VocabSize == Cardinality(Vocab)

SortPermsAscending(w) ==
    {idx \in [1..VocabSize -> Vocab] :
        /\ \A a, b \in 1..VocabSize : a # b => idx[a] # idx[b]
        /\ \A a \in 1..(VocabSize - 1) : w[idx[a]] <= w[idx[a + 1]]}

\* torch.sort(descending=True): every ordering of the indices that sorts the
\* values; the order of ties is not specified
SortPerms(w) ==
    {idx \in [1..VocabSize -> Vocab] :
        /\ \A a, b \in 1..VocabSize : a # b => idx[a] # idx[b]
        /\ \A a \in 1..(VocabSize - 1) : w[idx[a]] >= w[idx[a + 1]]}

Total(w) == SumTo([k \in 1..VocabSize |-> w[k - 1]], VocabSize)

\* mask = probs_sum - probs_sort > p, with p = pn / TopPDen and the
\* probabilities w / Total(w)
TopPMaskInclusive(probs_sum, probs_sort, pn, tot) ==
    probs_sum * TopPDen >= pn * tot

TopPMask(probs_sum, probs_sort, pn, tot) ==
    (probs_sum - probs_sort) * TopPDen > pn * tot

\* probs_sort after probs_sort[mask] = 0.0, for the sort order idx
MaskedSort(w, pn, idx) ==
    LET probs_sort == [k \in 1..VocabSize |-> w[idx[k]]]
    IN  [k \in 1..VocabSize |->
            IF TopPMask(SumTo(probs_sort, k), probs_sort[k], pn, Total(w))
            THEN 0 ELSE probs_sort[k]]

RECURSIVE Gcd(_, _)
Gcd(a, b) == IF b = 0 THEN a ELSE Gcd(b, a % b)

\* the quotient n / d of two weights as a pair <<numerator, denominator>> in
\* lowest terms; 0 / 0 is a NaN, written <<0, 0>>
Fraction(n, d) ==
    IF d = 0 THEN <<0, 0>> ELSE <<n \div Gcd(n, d), d \div Gcd(n, d)>>

\* probs_sort.div_(probs_sort.sum(dim=-1, keepdim=True)): every entry of the
\* masked vector divided by the sum of the entries
Normalised(masked) ==
    [k \in 1..VocabSize |-> Fraction(masked[k], SumTo(masked, VocabSize))]

\* the tokens torch.multinomial can return from the normalised vector, after
\* the gather through idx; none when the vector holds NaN
SampleTopPIdx(w, pn, idx) ==
    {idx[k] : k \in {j \in 1..VocabSize :
                        Normalised(MaskedSort(w, pn, idx))[j][1] > 0}}

sample_top_p(w, pn) == UNION {SampleTopPIdx(w, pn, idx) : idx \in SortPerms(w)}

UseSamplingLoose(temperature) == temperature >= 0

UseSampling(temperature) == temperature > 0

\* the tokens lines 100-107 of generate can produce from one logits vector
NextTokens(logits, temperature, pn) ==
    IF UseSampling(temperature)
    THEN UNION {sample_top_p(w, pn) : w \in Softmax(logits)}
    ELSE {Argmax(logits)}

Temperatures == {0, 1}

TopPs == 0..(TopPDen + 1)

\* NextTokens over every logits vector the model can return, tabulated
SampledTokens ==
    [temperature \in Temperatures, pn \in TopPs |->
        UNION {NextTokens(logits, temperature, pn) : logits \in LogitVectors}]

\* ----------------------------------------------------------- the backends
\* A cache row records the generate call that produced it and the absolute
\* position it was computed for.
Row(c, pos) == <<c, pos>>

NewRows(c, offset, n) == [i \in 1..n |-> Row(c, offset + i - 1)]

\* Model.new_cache: 2 * NUM_HIDDEN_LAYERS caches, created with fill count 0
new_cache == [b \in Buffers |-> <<>>]

Owners(rows) == {rows[k][1] : k \in 1..Len(rows)}

Cleared(kv, clear_cache) == IF clear_cache THEN new_cache ELSE kv

\* vm["encoding"] when the input holds more than one token
EntryPoint(n) == IF n > 1 THEN "encoding" ELSE "decoding"

\* The signature of the compiled function: "encoding" binds one symbolic n
\* to both the input length and all_seq_len, "decoding" takes one token.
ShapeOk(n, cur) == IF EntryPoint(n) = "encoding" THEN cur = n ELSE n = 1

\* the rotary offset, kv_seq_len - seq_len
RotaryOffset(kv_seq_len, seq_len) == kv_seq_len - seq_len

\* RotaryEmbedding: cos_cached and sin_cached have max_sequence_length rows,
\* and the rotary kernel reads row offset + i_seq_len for each of the seq_len
\* input positions
RotaryTableRows == 0..(max_position_embeddings - 1)

RotaryReads(offset, seq_len) == {offset + i_seq_len : i_seq_len \in 0..(seq_len - 1)}

\* attention_kv_cache_view(cache, [kv_seq_len, ...]): the requested length
\* has to be the fill count
ViewOk(rows, kv_seq_len) == Len(rows) = kv_seq_len

\* get_tvm_model.Model.forward.  The layers run in order; each appends to
\* its key and value cache and then views both; a failing view raises and
\* leaves the appends made so far in place.
TvmForward(kv, inputs, cur, clear_cache, c) ==
    LET kv0 == Cleared(kv, clear_cache)
        n == Len(inputs)
        rows == NewRows(c, RotaryOffset(cur, n), n)
        app == [b \in Buffers |-> kv0[b] \o rows]
        bad == {b \in Buffers : ~ViewOk(app[b], cur)}
        badLayer == (SetMin(bad) + 1) \div 2
    IN  IF ~ShapeOk(n, cur)
        THEN [ok |-> FALSE, kv |-> kv0, entry |-> EntryPoint(n),
              pre |-> {Len(kv0[b]) : b \in Buffers}, owners |-> {}]
        ELSE IF bad # {}
        THEN [ok |-> FALSE,
              kv |-> [b \in Buffers |->
                        IF b <= 2 * badLayer THEN app[b] ELSE kv0[b]],
              entry |-> EntryPoint(n),
              pre |-> {Len(kv0[b]) : b \in Buffers}, owners |-> {}]
        ELSE [ok |-> TRUE, kv |-> app, entry |-> EntryPoint(n),
              pre |-> {Len(kv0[b]) : b \in Buffers},
              owners |-> UNION {Owners(SubSeq(app[b], 1, cur)) : b \in Buffers}]

\* get_pytorch_model.Model.forward: cur_pos and clear_cache are swallowed by
\* *args / **kwargs; the model extends the past_key_values it is given
\* (<<>> stands for None) and attends over all of it.
TorchForward(pkv, inputs, c) ==
    LET past == IF pkv = <<>> THEN new_cache ELSE pkv
        n == Len(inputs)
        app == [b \in Buffers |-> past[b] \o NewRows(c, Len(past[b]), n)]
    IN  [ok |-> TRUE, kv |-> app, entry |-> "torch",
         pre |-> {Len(past[b]) : b \in Buffers},
         owners |-> UNION {Owners(app[b]) : b \in Buffers}]

\* ------------------------------------------------------------- generate
Strings(n) == UNION {[1..k -> Chars] : k \in 1..n}

Prompts == Strings(MaxPromptLen)

\* stop_str: <<>> stands for None; stop_tokens: <<>> stands for None and
\* <<S>> for an explicit list S
AllConfigs ==
    [backend : {"tvm", "torch"},
     max_gen_len : 0..MaxGenLen,
     temperature : Temperatures,
     top_p : TopPs,
     stream_interval : 1..MaxInterval,
     stop_str : {<<>>, <<"#">>, <<"a", "#">>},
     stop_tokens : {<<>>, <<{1}>>}]

\* greedy decoding (top_p unused) and nucleus sampling with top_p = 1/2
Configs ==
    {c \in AllConfigs :
        \/ c.temperature = 0 /\ c.top_p = TopPDen
        \/ c.temperature = 1 /\ c.top_p = TopPDen \div 2}

\* stop_tokens = [tokenizer.eos_token_id] if stop_tokens is None else stop_tokens
StopTokens(arg) == IF arg = <<>> THEN {eos_token_id} ELSE arg[1]

TotalLenOver(max_gen_len, p) == max_gen_len + p + 1

TotalLen(max_gen_len, p) == max_gen_len + p

IsPrefillAlways(cur, start) == cur >= start

IsPrefill(cur, start) == cur = start

ModelInputsWide(toks, cur, start) ==
    IF IsPrefill(cur, start) THEN SubSeq(toks, 1, cur)
    ELSE SubSeq(toks, cur - 1, cur)

\* tokens[:, :cur_pos] for the first step, tokens[:, cur_pos - 1 : cur_pos] after
ModelInputs(toks, cur, start) ==
    IF IsPrefill(cur, start) THEN SubSeq(toks, 1, cur)
    ELSE SubSeq(toks, cur, cur)

ShouldYieldOnInterval(i, interval, max_gen_len, stop) ==
    \/ i % interval = 0
    \/ stop

\* i % stream_interval == 0 or i == max_gen_len - 1 or stopped
ShouldYield(i, interval, max_gen_len, stop) ==
    \/ i % interval = 0
    \/ i = max_gen_len - 1
    \/ stop

LoopExitNever(stop) == FALSE

\* if stopped: break
LoopExit(stop) == stop

VARIABLES cfg, ncalls, kv_cache, past_key_values, gen, smp, quant, attn

vars == <<cfg, ncalls, kv_cache, past_key_values, gen, smp, quant, attn>>

IdleGen ==
    [pc |-> "none", cid |-> 0, prompt |-> <<>>, tokens |-> <<>>,
     start_pos |-> 0, cur_pos |-> 0, stopped |-> FALSE,
     output |-> <<>>, nyield |-> 0, out_pos |-> 0,
     sampled |-> <<>>, calls |-> <<>>]

IdleSmp ==
    [pc |-> "none", logits |-> [t \in Vocab |-> 0], temperature |-> 0,
     probs |-> [t \in Vocab |-> 1], top_p |-> 0,
     probs_idx |-> <<>>, probs_sort |-> <<>>, next_token |-> 0,
     picks |-> <<>>]

\* the quantization codec at rest
IdleQuant == [pc |-> "none"]

\* the attention step at rest
IdleAttn == [pc |-> "none"]

\* the caller runs exactly when no generator is inside its loop
CallerHasControl == \A s \in Seqs : gen[s].pc # "loop"

Finished(s) == gen[s].pc \in {"none", "done", "error"}

Init ==
    /\ cfg \in Configs
    /\ ncalls = 0
    /\ kv_cache = new_cache
    /\ past_key_values = <<>>
    /\ gen = [s \in Seqs |-> IdleGen]
    /\ quant = IdleQuant
    /\ attn = IdleAttn
    /\ smp = IdleSmp

\* model_wrapper.generate(prompt, ...): creates the generator object
Call(s) ==
    /\ CallerHasControl
    /\ Finished(s)
    /\ ncalls < MaxCalls
    /\ \E pr \in Prompts :
         gen' = [gen EXCEPT ![s] =
                   [IdleGen EXCEPT !.pc = "created", !.cid = ncalls + 1,
                                   !.prompt = pr]]
    /\ ncalls' = ncalls + 1
    /\ UNCHANGED <<cfg, kv_cache, past_key_values, smp, quant, attn>>

\* chat(): a generator is consumed to its end before the next prompt is read
CallSeq(s) ==
    /\ s = 1
    /\ \A t \in Seqs : Finished(t)
    /\ Call(s)

\* first resumption: lines 89-94 and the first evaluation of the range
Begin(s) ==
    /\ CallerHasControl
    /\ gen[s].pc = "created"
    /\ LET prompt_tokens == Encode(gen[s].prompt)
           p == Len(prompt_tokens)
           total_len == TotalLen(cfg.max_gen_len, p)
       IN  gen' = [gen EXCEPT ![s] =
                    [@ EXCEPT !.tokens = [k \in 1..total_len |->
                                            IF k <= p THEN prompt_tokens[k] ELSE 0],
                              !.start_pos = p,
                              !.cur_pos = p,
                              !.pc = IF p < total_len THEN "loop" ELSE "done"]]
    /\ UNCHANGED <<cfg, ncalls, kv_cache, past_key_values, smp, quant, attn>>

\* the end of an iteration: the next value of the range, or its exhaustion
Advance(g) ==
    IF g.cur_pos + 1 < Len(g.tokens)
    THEN [g EXCEPT !.cur_pos = g.cur_pos + 1, !.pc = "loop"]
    ELSE [g EXCEPT !.pc = "done"]

Forward(inputs, cur, clear_cache, c) ==
    IF cfg.backend = "tvm"
    THEN TvmForward(kv_cache, inputs, cur, clear_cache, c)
    ELSE TorchForward(past_key_values, inputs, c)

CallRecord(g, inputs, r) ==
    [clear_cache |-> IsPrefill(g.cur_pos, g.start_pos), ok |-> r.ok,
     inputs |-> inputs, total |-> g.cur_pos, entry |-> r.entry,
     pre |-> r.pre, lens |-> {Len(r.kv[b]) : b \in Buffers},
     owners |-> r.owners]

\* output.rfind(stop_str, len(prompt)) when stop_str is set, else -1
StopPos(out0, stop_str, prompt) ==
    IF stop_str # <<>> THEN RFind(out0, stop_str, Len(prompt)) ELSE 0 - 1

\* lines 107-125 for the sampled token tok, with toks the token buffer after
\* line 107, out0 its decoded text and pos the result of the stop_str
\* search: the generator after the step
AfterSample(g, tok, toks, out0, pos) ==
    LET stop0 == tok \in StopTokens(cfg.stop_tokens)
        i == g.cur_pos - g.start_pos
        g1 == [g EXCEPT !.tokens = toks, !.sampled = Append(g.sampled, tok)]
    IN  IF ShouldYield(i, cfg.stream_interval, cfg.max_gen_len, stop0)
        THEN [g1 EXCEPT !.pc = "yield",
                        !.output = IF pos # 0 - 1 THEN Prefix(out0, pos) ELSE out0,
                        !.stopped = stop0 \/ pos # 0 - 1,
                        !.nyield = g.nyield + 1,
                        !.out_pos = g.cur_pos]
        ELSE IF LoopExit(stop0)
        THEN [g1 EXCEPT !.stopped = stop0, !.pc = "done"]
        ELSE Advance([g1 EXCEPT !.stopped = stop0])

\* one iteration of the loop, lines 96-123 (to the yield) or 96-125; the
\* singleton quantifiers name the intermediate values of the iteration
Body(s) ==
    /\ gen[s].pc = "loop"
    /\ \E g \in {gen[s]} :
       \E inputs \in {ModelInputs(g.tokens, g.cur_pos, g.start_pos)} :
       \E r \in {Forward(inputs, g.cur_pos,
                          IsPrefill(g.cur_pos, g.start_pos), g.cid)} :
       \E g0 \in {[g EXCEPT !.calls = Append(g.calls, CallRecord(g, inputs, r))]} :
           /\ IF cfg.backend = "tvm"
              THEN kv_cache' = r.kv /\ UNCHANGED past_key_values
              ELSE past_key_values' = r.kv /\ UNCHANGED kv_cache
           /\ IF ~r.ok
              THEN gen' = [gen EXCEPT ![s] = [g0 EXCEPT !.pc = "error"]]
              ELSE \E tok \in SampledTokens[cfg.temperature, cfg.top_p] :
                   \E toks \in {[g.tokens EXCEPT ![g.cur_pos + 1] = tok]} :
                   \E out0 \in {Decode(SubSeq(toks, 1, g.cur_pos + 1))} :
                   \E pos \in {StopPos(out0, cfg.stop_str, g.prompt)} :
                     gen' = [gen EXCEPT ![s] = AfterSample(g0, tok, toks, out0, pos)]
    /\ UNCHANGED <<cfg, ncalls, smp, quant, attn>>

\* resumption after a yield: lines 124-125 and the next value of the range
AfterYield(s) ==
    /\ CallerHasControl
    /\ gen[s].pc = "yield"
    /\ gen' = [gen EXCEPT ![s] =
                 IF LoopExit(gen[s].stopped)
                 THEN [gen[s] EXCEPT !.pc = "done"]
                 ELSE Advance(gen[s])]
    /\ UNCHANGED <<cfg, ncalls, kv_cache, past_key_values, smp, quant, attn>>

Next == \E s \in Seqs : CallSeq(s) \/ Begin(s) \/ Body(s) \/ AfterYield(s)

Spec == Init /\ [][Next]_vars

\* ------------------------------------- two generators on one model wrapper
\* Nothing in ModelWrapper keeps a second generate call from being made and
\* resumed while the first generator is suspended at a yield.
ConfigsInterleaved ==
    {c \in Configs : /\ c.backend = "tvm"
                     /\ c.temperature = 0
                     /\ c.top_p = TopPDen
                     /\ c.stop_str = <<>>
                     /\ c.stop_tokens = <<>>}

InitInterleaved ==
    /\ cfg \in ConfigsInterleaved
    /\ ncalls = 0
    /\ kv_cache = new_cache
    /\ past_key_values = <<>>
    /\ gen = [s \in Seqs |-> IdleGen]
    /\ quant = IdleQuant
    /\ attn = IdleAttn
    /\ smp = IdleSmp

NextInterleaved ==
    \E s \in Seqs : Call(s) \/ Begin(s) \/ Body(s) \/ AfterYield(s)

SpecInterleaved == InitInterleaved /\ [][NextInterleaved]_vars

\* chat() resumes the generator it created until it is exhausted: its for
\* loop over generate(...) has no break.  The configurations are those of
\* the compiled backend with nucleus sampling; every stop-token set, stop
\* string, stream interval and generation length is kept.
InitFair == Init /\ cfg.backend = "tvm" /\ cfg.temperature = 1

FairSpec ==
    /\ InitFair
    /\ [][Next]_vars
    /\ \A s \in Seqs : WF_vars(Begin(s) \/ Body(s) \/ AfterYield(s))

\* ---------------------------------------------- the sampling step in isolation
MaxPicks == 2

ProbVectors == {w \in [Vocab -> 0..MaxWeight] : Total(w) > 0}

InitSample ==
    /\ cfg \in {c \in ConfigsInterleaved :
                    c.max_gen_len = 0 /\ c.stream_interval = 1}
    /\ ncalls = 0
    /\ kv_cache = new_cache
    /\ past_key_values = <<>>
    /\ gen = [s \in Seqs |-> IdleGen]
    /\ quant = IdleQuant
    /\ attn = IdleAttn
    /\ \/ \E logits \in LogitVectors, temperature \in Temperatures,
             top_p \in TopPs :
            smp = [IdleSmp EXCEPT !.pc = "step", !.logits = logits,
                                  !.temperature = temperature,
                                  !.top_p = top_p]
       \/ \E probs \in ProbVectors, top_p \in TopPs :
            smp = [IdleSmp EXCEPT !.pc = "ready", !.probs = probs,
                                  !.top_p = top_p]

\* sample_top_p(probs, p), lines 129-136
SampleTopPCall ==
    /\ smp.pc = "ready"
    /\ \E idx \in SortPerms(smp.probs) :
         LET probs_sort == Normalised(MaskedSort(smp.probs, smp.top_p, idx))
             toks == SampleTopPIdx(smp.probs, smp.top_p, idx)
         IN  IF toks = {}
             THEN smp' = [smp EXCEPT !.pc = "error", !.probs_idx = idx,
                                     !.probs_sort = probs_sort]
             ELSE \E tok \in toks :
                    smp' = [smp EXCEPT !.pc = "sampled", !.probs_idx = idx,
                                       !.probs_sort = probs_sort,
                                       !.next_token = tok]
    /\ UNCHANGED <<cfg, ncalls, kv_cache, past_key_values, gen, quant, attn>>

\* lines 100-107 of generate, applied to the same logits once more
SampleStep ==
    /\ smp.pc = "step"
    /\ Len(smp.picks) < MaxPicks
    /\ \E tok \in NextTokens(smp.logits, smp.temperature, smp.top_p) :
         smp' = [smp EXCEPT !.picks = Append(smp.picks, tok)]
    /\ UNCHANGED <<cfg, ncalls, kv_cache, past_key_values, gen, quant, attn>>

NextSample == SampleTopPCall \/ SampleStep

SpecSample == InitSample /\ [][NextSample]_vars

\* ------------------------------------------- logits with non-finite entries
\* A logit is a finite level 0..MaxLogit, -inf, +inf or NaN.  The encoding
\* keeps the order torch.argmax uses: NaN counts as the greatest value.
NegInf == 0 - 1

PosInf == MaxLogit + 1

NaN == MaxLogit + 2

FaultLogitVectors == [Vocab -> (0..MaxLogit) \cup {NegInf, PosInf, NaN}]

HasFault(logits) == \E t \in Vocab : logits[t] \in {NegInf, PosInf, NaN}

\* torch.softmax gives NaN in every entry when an entry is NaN or +inf, or
\* when every entry is -inf
SoftmaxIsNaN(logits) ==
    \/ \E t \in Vocab : logits[t] \in {PosInf, NaN}
    \/ \A t \in Vocab : logits[t] = NegInf

\* otherwise an entry -inf has probability 0 and the others are positive
SoftmaxFinite(logits) ==
    {w \in [Vocab -> 0..MaxWeight] :
        /\ \A t \in Vocab : w[t] = 0 <=> logits[t] = NegInf
        /\ \A i, j \in Vocab :
             /\ logits[i] > logits[j] => w[i] >= w[j]
             /\ logits[i] = logits[j] => w[i] = w[j]}

\* lines 100-107 of generate for one logits vector: the tokens the step can
\* write to the token buffer; the empty set stands for the RuntimeError that
\* torch.multinomial raises on a probability vector holding NaN
FaultTokens(logits, temperature, pn) ==
    IF UseSampling(temperature)
    THEN IF SoftmaxIsNaN(logits) THEN {}
         ELSE UNION {sample_top_p(w, pn) : w \in SoftmaxFinite(logits)}
    ELSE {Argmax(logits)}

InitFault ==
    /\ cfg \in {c \in ConfigsInterleaved :
                    c.max_gen_len = 0 /\ c.stream_interval = 1}
    /\ ncalls = 0
    /\ kv_cache = new_cache
    /\ past_key_values = <<>>
    /\ gen = [s \in Seqs |-> IdleGen]
    /\ quant = IdleQuant
    /\ attn = IdleAttn
    /\ \E logits \in FaultLogitVectors, temperature \in Temperatures,
          top_p \in TopPs :
         smp = [IdleSmp EXCEPT !.pc = "logits", !.logits = logits,
                               !.temperature = temperature, !.top_p = top_p]

\* the sampling of one loop iteration, given the logits of the model step
FaultStep ==
    /\ smp.pc = "logits"
    /\ \E toks \in {FaultTokens(smp.logits, smp.temperature, smp.top_p)} :
         IF toks = {}
         THEN smp' = [smp EXCEPT !.pc = "error"]
         ELSE \E tok \in toks :
                smp' = [smp EXCEPT !.pc = "sampled", !.next_token = tok]
    /\ UNCHANGED <<cfg, ncalls, kv_cache, past_key_values, gen, quant, attn>>

NextFault == FaultStep

SpecFault == InitFault /\ [][NextFault]_vars

\* ------------------------------------------------------- uint32 arithmetic
\* A uint32 is the function of its 32 bits, bit 0 the least significant.
\* tir.const(n, "uint32"), for n below 2^31
U32(n) == [b \in 0..31 |-> IF b = 31 THEN 0 ELSE (n \div (2 ^ b)) % 2]

\* the uint32 with high half hi and low half lo, both below 2^16
U32OfHalves(hi, lo) ==
    [b \in 0..31 |-> IF b < 16 THEN (lo \div (2 ^ b)) % 2
                     ELSE (hi \div (2 ^ (b - 16))) % 2]

\* the number held by the n bits of x from bit lo on
RECURSIVE BitsToNat(_, _, _)
BitsToNat(x, lo, n) ==
    IF n = 0 THEN 0 ELSE x[lo] + 2 * BitsToNat(x, lo + 1, n - 1)

\* x >> k
ShiftRight(x, k) == [b \in 0..31 |-> IF b + k <= 31 THEN x[b + k] ELSE 0]

\* x << k: the bits shifted past bit 31 are lost
ShiftLeft(x, k) == [b \in 0..31 |-> IF b >= k THEN x[b - k] ELSE 0]

\* x & y
BitAnd(x, y) == [b \in 0..31 |-> x[b] * y[b]]

\* x | y
BitOr(x, y) == [b \in 0..31 |-> IF x[b] + y[b] > 0 THEN 1 ELSE 0]

\* x + y in uint32, added half by half: the carry out of the low half goes
\* into the high half and the carry out of bit 31 is lost
AddU32(x, y) ==
    LET lo == BitsToNat(x, 0, 16) + BitsToNat(y, 0, 16)
        hi == BitsToNat(x, 16, 16) + BitsToNat(y, 16, 16) + lo \div 65536
    IN  U32OfHalves(hi % 65536, lo % 65536)

\* mask = tir.const((1 << 16) - 1, "uint32")
Mask16 == U32(65535)

\* ------------------------------------------------ float32 <-> bfloat16 x 2
\* ((u32_val >> 16) & 1) + 0x7FFF
RoundingBias(u32_val) ==
    AddU32(BitAnd(ShiftRight(u32_val, 16), U32(1)), U32(32767))

\* one iteration of the loop of _tir_f32x2_to_bf16x2_to_u32, round_to_even
ToBf16(data) ==
    BitAnd(ShiftRight(AddU32(data, RoundingBias(data)), 16), Mask16)

\* _tir_f32x2_to_bf16x2_to_u32(v0, v1): res[0] | (res[1] << 16)
F32x2ToBf16x2(v0, v1) == BitOr(ToBf16(v0), ShiftLeft(ToBf16(v1), 16))

\* _tir_u32_to_bf16x2_to_f32x2(x): the two float32 patterns
Bf16x2ToF32x2(x) ==
    <<ShiftLeft(BitAnd(x, Mask16), 16),
      ShiftLeft(BitAnd(ShiftRight(x, 16), Mask16), 16)>>

\* float32 bit patterns: zero, one, the largest finite value, infinity and
\* NaN of both signs in the high half; every rounding case in the low half
HighHalves == {0, 16256, 16257, 32639, 32640, 32767, 49024, 65535}

LowHalves == {0, 1, 32767, 32768, 32769, 65535}

F32Patterns == {U32OfHalves(hi, lo) : hi \in HighHalves, lo \in LowHalves}

InitBf16 ==
    /\ cfg \in {c \in ConfigsInterleaved :
                    c.max_gen_len = 0 /\ c.stream_interval = 1}
    /\ ncalls = 0
    /\ kv_cache = new_cache
    /\ past_key_values = <<>>
    /\ gen = [s \in Seqs |-> IdleGen]
    /\ smp = IdleSmp
    /\ attn = IdleAttn
    /\ \E v0, v1 \in F32Patterns :
         quant = [pc |-> "f32x2", v0 |-> v0, v1 |-> v1,
                  packed |-> U32(0), f32x2 |-> <<U32(0), U32(0)>>]

\* scale_bias[i, j] = _tir_f32x2_to_bf16x2_to_u32(scale, min_value)
PackBf16 ==
    /\ quant.pc = "f32x2"
    /\ quant' = [quant EXCEPT !.pc = "packed",
                              !.packed = F32x2ToBf16x2(quant.v0, quant.v1)]
    /\ UNCHANGED <<cfg, ncalls, kv_cache, past_key_values, gen, smp, attn>>

\* scale_f32, bias_f32 = _tir_u32_to_bf16x2_to_f32x2(scale_bias[i, j])
UnpackBf16 ==
    /\ quant.pc = "packed"
    /\ quant' = [quant EXCEPT !.pc = "unpacked",
                              !.f32x2 = Bf16x2ToF32x2(quant.packed)]
    /\ UNCHANGED <<cfg, ncalls, kv_cache, past_key_values, gen, smp, attn>>

NextBf16 == PackBf16 \/ UnpackBf16

SpecBf16 == InitBf16 /\ [][NextBf16]_vars

\* ------------------------------------------------ grouped 4-bit quantization
\* te.reduce_axis((0, 8)): eight indices to a uint32 word
WordNibbles == 8

\* (1 << 4) - 1, the largest index, and the divisor of the scale
MaxIndex == 15

RECURSIVE Log2Floor(_)
Log2Floor(n) == IF n <= 1 THEN 0 ELSE 1 + Log2Floor(n \div 2)

\* tir.reinterpret("uint32", v) for the float32 v that holds the integer n,
\* 0 <= n < 2^24: sign 0, exponent 127 + e, the 23 fraction bits of n / 2^e
F32Bits(n) ==
    IF n = 0 THEN U32(0)
    ELSE LET e == Log2Floor(n)
         IN  U32((127 + e) * (2 ^ 23) + (n - 2 ^ e) * (2 ^ (23 - e)))

\* tir.reinterpret("float32", x) for a pattern x of a non-negative float32
\* that holds an integer
F32Value(x) ==
    LET e == BitsToNat(x, 23, 8)
        m == BitsToNat(x, 0, 23)
    IN  IF e = 0 THEN 0
        ELSE IF e >= 150 THEN (2 ^ 23 + m) * (2 ^ (e - 150))
        ELSE (2 ^ 23 + m) \div (2 ^ (150 - e))

\* The weights.  A weight is a float32 holding a non-negative integer; a
\* matrix is a base value plus, in every row, two runs of eight offsets,
\* chosen so that in every group of 4, 8 or 16 columns max - min is 0, 15 or
\* 30: the scale is then 0, 1 or 2 and every float32 operation of the codec
\* is exact.
RowIds == {0, 1}

Cols == 2 * WordNibbles

Bases == {1, 1030}

OffsetRuns ==
    {<<0, 0, 0, 0, 0, 0, 0, 0>>,
     <<0, 15, 7, 8, 3, 0, 15, 12>>,
     <<0, 30, 1, 5, 30, 0, 15, 29>>}

OffsetRows ==
    {[j \in 0..(Cols - 1) |->
        IF j < WordNibbles THEN p[j + 1] ELSE q[j + 1 - WordNibbles]] :
     p \in OffsetRuns, q \in OffsetRuns}

Weights ==
    {[i \in RowIds |-> [j \in 0..(Cols - 1) |-> base + offsets[i][j]]] :
     base \in Bases, offsets \in [RowIds -> OffsetRows]}

GroupSizes == {3, 4, 8, 16}

GroupDividesAlways(cols, group_size) == TRUE

\* assert weight.shape[1] % group_size == 0
GroupDivides(cols, group_size) == cols % group_size = 0

\* n_group = weight.shape[1] // group_size
NGroup(cols, group_size) == cols \div group_size

\* the columns j * group_size + k of the weight, k on the reduce axis
GroupCols(weight, i, j, group_size) ==
    {c \in DOMAIN weight[i] : c \div group_size = j}

min_value(weight, i, j, group_size) ==
    SetMin({weight[i][c] : c \in GroupCols(weight, i, j, group_size)})

max_value(weight, i, j, group_size) ==
    SetMax({weight[i][c] : c \in GroupCols(weight, i, j, group_size)})

\* (max_value[i, j] - min_value[i, j]) / 15
scale(weight, i, j, group_size) ==
    (max_value(weight, i, j, group_size) - min_value(weight, i, j, group_size))
        \div MaxIndex

\* tir.round of n / d for n >= 0, d > 0.  A quotient half way between two
\* integers goes away from zero or to the even one, depending on the target
\* the kernel is built for.
RoundModes == {"half_away", "half_even"}

Round(n, d, mode) ==
    LET q == n \div d
        r == n % d
    IN  IF 2 * r < d THEN q
        ELSE IF 2 * r > d THEN q + 1
        ELSE IF mode = "half_away" \/ q % 2 = 1 THEN q + 1
        ELSE q

\* T.min(T.max(w_scaled, 0), 15)
Clamp(x) == IF x < 0 THEN 0 ELSE IF x > MaxIndex THEN MaxIndex ELSE x

\* f_scale_weight(i, j).  With scale 0 the quotient is 0 / 0, a NaN, whose
\* conversion to int32 is the smallest int32 or 0; the clamp makes it 0.
f_scale_weight(weight, i, j, group_size, mode) ==
    LET group_idx == j \div group_size
        sc == scale(weight, i, group_idx, group_size)
        mn == min_value(weight, i, group_idx, group_size)
    IN  IF sc = 0 THEN Clamp(0)
        ELSE Clamp(Round(weight[i][j] - mn, sc, mode))

NibbleShiftNarrow(k) == k * 3

\* (k * 4).astype("uint32")
NibbleShift(k) == k * 4

\* reducer(f_scale_weight(i, j * 8 + k) << (k * 4), axis=k), for the first n
\* values of k; w_scaled is the row of scaled weights
RECURSIVE GatherTo(_, _, _)
GatherTo(w_scaled, j, n) ==
    IF n = 0 THEN U32(0)
    ELSE BitOr(GatherTo(w_scaled, j, n - 1),
               ShiftLeft(U32(w_scaled[j * WordNibbles + n - 1]),
                         NibbleShift(n - 1)))

\* w_gathered, transpose = False: shape (rows, cols // 8)
w_gathered(w_scaled) ==
    [i \in DOMAIN w_scaled |->
        [j \in 0..(Cardinality(DOMAIN w_scaled[i]) \div WordNibbles - 1) |->
            GatherTo(w_scaled[i], j, WordNibbles)]]

\* scale_bias, transpose = False: shape (rows, n_group)
ScaleBias(weight, group_size) ==
    [i \in DOMAIN weight |->
        [j \in 0..(NGroup(Cardinality(DOMAIN weight[i]), group_size) - 1) |->
            F32x2ToBf16x2(F32Bits(scale(weight, i, j, group_size)),
                          F32Bits(min_value(weight, i, j, group_size)))]]

\* _tir_u32_to_i4_to_f32(val, pos): (val >> (pos * 4)) & 15, as a float32
U32ToI4(val, pos) == BitsToNat(BitAnd(ShiftRight(val, pos * 4), U32(MaxIndex)), 0, 32)

\* decoding_func_asym.f_decode_asym(i, j), data_transposed = False
f_decode_asym(data, scale_bias, i, j, group_size) ==
    LET data_f32 == U32ToI4(data[i][j \div 8], j % 8)
        f32x2 == Bf16x2ToF32x2(scale_bias[i][j \div group_size])
    IN  data_f32 * F32Value(f32x2[1]) + F32Value(f32x2[2])

\* te_decode_asym: shape (data.shape[0], data.shape[1] * 8)
te_decode_asym(data, scale_bias, group_size) ==
    [i \in DOMAIN data |->
        [j \in 0..(Cardinality(DOMAIN data[i]) * 8 - 1) |->
            f_decode_asym(data, scale_bias, i, j, group_size)]]

TakenRowSame(indices, i) == i

\* indices[i]
TakenRow(indices, i) == indices[i]

\* decoding_after_taking_func_asym.f_decode_asym(i, j)
f_take_decode_asym(data, scale_bias, indices, i, j, group_size) ==
    LET data_f32 == U32ToI4(data[TakenRow(indices, i)][j \div 8], j % 8)
        f32x2 == Bf16x2ToF32x2(scale_bias[TakenRow(indices, i)][j \div group_size])
    IN  data_f32 * F32Value(f32x2[1]) + F32Value(f32x2[2])

\* te_take_decode_asym: shape (indices.shape[0], data.shape[1] * 8)
te_take_decode_asym(data, scale_bias, indices, group_size) ==
    [i \in DOMAIN indices |->
        [j \in 0..(Cardinality(DOMAIN data[0]) * 8 - 1) |->
            f_take_decode_asym(data, scale_bias, indices, i, j, group_size)]]

\* the row indices of a take: one or two rows of the weight
IndexLists == UNION {[0..(n - 1) -> RowIds] : n \in 1..2}

InitQuant ==
    /\ cfg \in {c \in ConfigsInterleaved :
                    c.max_gen_len = 0 /\ c.stream_interval = 1}
    /\ ncalls = 0
    /\ kv_cache = new_cache
    /\ past_key_values = <<>>
    /\ gen = [s \in Seqs |-> IdleGen]
    /\ smp = IdleSmp
    /\ attn = IdleAttn
    /\ \E weight \in Weights, group_size \in GroupSizes :
         quant = [pc |-> "weights", weight |-> weight,
                  group_size |-> group_size, w_scaled |-> <<>>,
                  data |-> <<>>, scale_bias |-> <<>>, decoded |-> <<>>,
                  indices |-> <<>>, taken |-> <<>>]

\* GroupQuantize.emit_encoding, when the model is built: te_encode_asym on a
\* weight parameter
EmitEncoding ==
    /\ quant.pc = "weights"
    /\ IF ~GroupDivides(Cols, quant.group_size)
       THEN quant' = [quant EXCEPT !.pc = "AssertionError"]
       ELSE \E mode \in RoundModes :
            \E w_scaled \in {[i \in RowIds |-> [j \in 0..(Cols - 1) |->
                                f_scale_weight(quant.weight, i, j,
                                               quant.group_size, mode)]]} :
              quant' = [quant EXCEPT
                          !.pc = "encoded",
                          !.w_scaled = w_scaled,
                          !.data = w_gathered(w_scaled),
                          !.scale_bias = ScaleBias(quant.weight, quant.group_size)]
    /\ UNCHANGED <<cfg, ncalls, kv_cache, past_key_values, gen, smp, attn>>

\* a request runs the decode kernel on the encoded weight
Decode4Bit ==
    /\ quant.pc = "encoded"
    /\ quant' = [quant EXCEPT
                   !.pc = "decoded",
                   !.decoded = te_decode_asym(quant.data, quant.scale_bias,
                                              quant.group_size)]
    /\ UNCHANGED <<cfg, ncalls, kv_cache, past_key_values, gen, smp, attn>>

\* a request runs the take_decode kernel on the encoded weight
TakeDecode ==
    /\ quant.pc = "encoded"
    /\ \E indices \in IndexLists :
         quant' = [quant EXCEPT
                     !.pc = "taken",
                     !.indices = indices,
                     !.taken = te_take_decode_asym(quant.data, quant.scale_bias,
                                                   indices, quant.group_size)]
    /\ UNCHANGED <<cfg, ncalls, kv_cache, past_key_values, gen, smp, attn>>

NextQuant == EmitEncoding \/ Decode4Bit \/ TakeDecode

SpecQuant == InitQuant /\ [][NextQuant]_vars

\* ------------------------------------------------------- attention masks
\* tvm.tir.min_value("float32"), -3.4028235e38.  The number below stands for
\* it; it is far below every score and every product of scores.
MinValue == 0 - 2 ^ 30

\* exp(x) is 0 in float32 for every x below -104
ExpUnderflow == 104

\* the attention scores q.k / sqrt(head_dim) of a prefill of tgt_len tokens
TgtLens == 1..3

Scores == {0 - 2, 3}

ScoreMatrices(n) == [0..(n - 1) -> [0..(n - 1) -> Scores]]

\* float32 x + y with at most one operand min_value: a score is below 2^103,
\* half the spacing of float32 at min_value, so the sum rounds to min_value
AddF32(x, y) == IF x = MinValue \/ y = MinValue THEN MinValue ELSE x + y

\* float32 x - m for m >= x
SubF32(x, m) == IF x = m THEN 0 ELSE IF x = MinValue THEN MinValue ELSE x - m

Maximum(x, y) == IF x >= y THEN x ELSE y

\* full((tgt_len, tgt_len), value)
Full(tgt_len, value) ==
    [i \in 0..(tgt_len - 1) |-> [j \in 0..(tgt_len - 1) |-> value]]

Tril(m, k) ==
    [i \in DOMAIN m |-> [j \in DOMAIN m[i] |-> IF j - i <= k THEN m[i][j] ELSE 0]]

\* triu(m, k): the entries on and above the k-th diagonal, 0 elsewhere
Triu(m, k) ==
    [i \in DOMAIN m |-> [j \in DOMAIN m[i] |-> IF j - i >= k THEN m[i][j] ELSE 0]]

\* _prepare_decoder_attention_mask in the prefill function, where
\* input_shape[-1] is a tir.Var
PrepareDecoderAttentionMask(tgt_len) == Triu(Full(tgt_len, MinValue), 1)

\* GPTNeoXAttention.forward: attn_weights + attention_mask, then the maximum
\* with min_value
DollyScores(attn_weights, attention_mask) ==
    [i \in DOMAIN attn_weights |-> [j \in DOMAIN attn_weights[i] |->
        Maximum(AddF32(attn_weights[i][j], attention_mask[i][j]), MinValue)]]

RowMax(row) == SetMax({row[j] : j \in DOMAIN row})

\* where softmax(x, axis=-1) is 0: exp(x[i][j] - max of row i) underflows
SoftmaxZero(x) ==
    [i \in DOMAIN x |-> [j \in DOMAIN x[i] |->
        SubF32(x[i][j], RowMax(x[i])) < 0 - ExpUnderflow]]

\* chatglm_utils.get_masks: TRUE where attention is masked; the context,
\* the tokens before the bos token, is visible from every position
GetMasks(seq_length, context_length) ==
    [i \in 0..(seq_length - 1) |-> [j \in 0..(seq_length - 1) |->
        ~(j <= i \/ j < context_length)]]

\* relax.const(-10000.0, dtype)
MaskFill == 0 - 10000

LayerIds == {0, 1}

\* query_key_layer_scaling_coeff = float(layer_id + 1)
ScalingCoeff(layer_id) == layer_id + 1

\* attention_fn: where(attention_mask, full_like(-10000.0), attention_scores)
\* times the scaling coefficient
ChatglmScores(attention_scores, attention_mask, layer_id) ==
    [i \in DOMAIN attention_scores |-> [j \in DOMAIN attention_scores[i] |->
        (IF attention_mask[i][j] THEN MaskFill ELSE attention_scores[i][j])
            * ScalingCoeff(layer_id)]]

InitAttention ==
    /\ cfg \in {c \in ConfigsInterleaved :
                    c.max_gen_len = 0 /\ c.stream_interval = 1}
    /\ ncalls = 0
    /\ kv_cache = new_cache
    /\ past_key_values = <<>>
    /\ gen = [s \in Seqs |-> IdleGen]
    /\ smp = IdleSmp
    /\ quant = IdleQuant
    /\ \E tgt_len \in TgtLens : \E scores \in ScoreMatrices(tgt_len) :
         attn = [pc |-> "scores", tgt_len |-> tgt_len, scores |-> scores,
                 mask |-> <<>>, masked |-> <<>>, pre |-> <<>>, zero |-> <<>>]

\* the prefill of the GPT-NeoX model: GPTNeoXModel.forward prepares the mask,
\* GPTNeoXAttention.forward applies it
DollyAttention ==
    /\ attn.pc = "scores"
    /\ \E mask \in {PrepareDecoderAttentionMask(attn.tgt_len)} :
       \E pre \in {DollyScores(attn.scores, mask)} :
         attn' = [attn EXCEPT
                    !.pc = "dolly",
                    !.mask = mask,
                    !.masked = [i \in DOMAIN mask |-> [j \in DOMAIN mask[i] |->
                                   mask[i][j] # 0]],
                    !.pre = pre,
                    !.zero = SoftmaxZero(pre)]
    /\ UNCHANGED <<cfg, ncalls, kv_cache, past_key_values, gen, smp, quant>>

\* the prefill of ChatGLM: get_masks prepares the mask, attention_fn applies it
ChatglmAttention ==
    /\ attn.pc = "scores"
    /\ \E context_length \in 0..(attn.tgt_len - 1), layer_id \in LayerIds :
       \E mask \in {GetMasks(attn.tgt_len, context_length)} :
       \E pre \in {ChatglmScores(attn.scores, mask, layer_id)} :
         attn' = [attn EXCEPT
                    !.pc = "chatglm",
                    !.mask = mask,
                    !.masked = mask,
                    !.pre = pre,
                    !.zero = SoftmaxZero(pre)]
    /\ UNCHANGED <<cfg, ncalls, kv_cache, past_key_values, gen, smp, quant>>

NextAttention == DollyAttention \/ ChatglmAttention

SpecAttention == InitAttention /\ [][NextAttention]_vars

\* ------------------------------------------------------ rotary embedding
\* Angles are counted in quarter turns, where cos and sin are exact.
QuarterCos(a) == IF a % 4 = 0 THEN 1 ELSE IF a % 4 = 2 THEN 0 - 1 ELSE 0

QuarterSin(a) == IF a % 4 = 1 THEN 1 ELSE IF a % 4 = 3 THEN 0 - 1 ELSE 0

head_dim == 4

\* rotary_ndim = int(head_dim * rotary_pct), an even number up to head_dim
RotaryNdims == {2, 4}

\* inv_freq: one angle per pair of rotated dimensions
InvFreqs(rotary_ndim) == [0..((rotary_ndim \div 2) - 1) -> 1..3]

EmbShifted(inv_freq, t, j) == (t + 1) * inv_freq[j % Cardinality(DOMAIN inv_freq)]

\* emb = concatenate((freq, freq)) with freq[t][m] = t * inv_freq[m]
Emb(inv_freq, t, j) == t * inv_freq[j % Cardinality(DOMAIN inv_freq)]

cos_cached(inv_freq, t, j) == QuarterCos(Emb(inv_freq, t, j))

sin_cached(inv_freq, t, j) == QuarterSin(Emb(inv_freq, t, j))

\* RotaryEmbedding.forward.rotary_embedding, for one batch entry and one head:
\* x[i_seq_len][i_head_dim]
rotary_embedding(x, inv_freq, rotary_ndim, offset) ==
    LET n_feat_half == rotary_ndim \div 2
    IN  [i_seq_len \in DOMAIN x |-> [i_head_dim \in DOMAIN x[i_seq_len] |->
            IF i_head_dim < rotary_ndim
            THEN cos_cached(inv_freq, offset + i_seq_len, i_head_dim)
                    * x[i_seq_len][i_head_dim]
                 + sin_cached(inv_freq, offset + i_seq_len, i_head_dim)
                    * (IF i_head_dim < n_feat_half
                       THEN 0 - x[i_seq_len][i_head_dim + n_feat_half]
                       ELSE x[i_seq_len][i_head_dim - n_feat_half])
            ELSE x[i_seq_len][i_head_dim]]]

\* the projected queries (or keys) of seq_len positions
Projections == UNION {[0..(n - 1) -> [0..(head_dim - 1) -> {0 - 1, 2}]] : n \in 1..2}

InitRotary ==
    /\ cfg \in {c \in ConfigsInterleaved :
                    c.max_gen_len = 0 /\ c.stream_interval = 1}
    /\ ncalls = 0
    /\ kv_cache = new_cache
    /\ past_key_values = <<>>
    /\ gen = [s \in Seqs |-> IdleGen]
    /\ smp = IdleSmp
    /\ quant = IdleQuant
    /\ \E x \in Projections, rotary_ndim \in RotaryNdims, offset \in 0..1 :
       \E inv_freq \in InvFreqs(rotary_ndim) :
         attn = [pc |-> "projected", x |-> x, rotary_ndim |-> rotary_ndim,
                 inv_freq |-> inv_freq, offset |-> offset, embed |-> <<>>]

\* q, k = self.rotary_embedding(q, k, kv_seq_len - seq_len)
Rotary ==
    /\ attn.pc = "projected"
    /\ attn' = [attn EXCEPT
                  !.pc = "rotary",
                  !.embed = rotary_embedding(attn.x, attn.inv_freq,
                                             attn.rotary_ndim, attn.offset)]
    /\ UNCHANGED <<cfg, ncalls, kv_cache, past_key_values, gen, smp, quant>>

NextRotary == Rotary

SpecRotary == InitRotary /\ [][NextRotary]_vars

\* ------------------------------------- one attention call with a cache
\* The bindings of GPTNeoXAttention.forward (and of chatglm.attention_fn,
\* which emits the same four calls in the same order) run in program order:
\* append to the key cache, append to the value cache, view the key cache,
\* view the value cache.
AppendNothing(cache, rows) == cache

\* vm.builtin.attention_kv_cache_append
attention_kv_cache_append(cache, rows) == cache \o rows

\* vm.builtin.attention_kv_cache_view: the first kv_seq_len rows
attention_kv_cache_view(cache, kv_seq_len) == SubSeq(cache, 1, kv_seq_len)

\* a cache filled by `past` positions of an earlier step, seq_len projected
\* positions of this step, and the all_seq_len the caller passes
InitLayer ==
    /\ cfg \in {c \in ConfigsInterleaved :
                    c.max_gen_len = 0 /\ c.stream_interval = 1}
    /\ ncalls = 0
    /\ kv_cache = new_cache
    /\ past_key_values = <<>>
    /\ gen = [s \in Seqs |-> IdleGen]
    /\ smp = IdleSmp
    /\ quant = IdleQuant
    /\ \E past \in 0..3, seq_len \in 1..3, kv_seq_len \in 1..6, owner \in 1..2 :
         attn = [pc |-> "kv", seq_len |-> seq_len, kv_seq_len |-> kv_seq_len,
                 new |-> NewRows(owner + 1, RotaryOffset(kv_seq_len, seq_len), seq_len),
                 k_cache |-> NewRows(owner, 0, past),
                 v_cache |-> NewRows(owner, 0, past),
                 k |-> NewRows(owner + 1, RotaryOffset(kv_seq_len, seq_len), seq_len),
                 v |-> NewRows(owner + 1, RotaryOffset(kv_seq_len, seq_len), seq_len)]

AppendK ==
    /\ attn.pc = "kv"
    /\ attn' = [attn EXCEPT !.pc = "k_appended",
                            !.k_cache = attention_kv_cache_append(attn.k_cache, attn.k)]
    /\ UNCHANGED <<cfg, ncalls, kv_cache, past_key_values, gen, smp, quant>>

AppendV ==
    /\ attn.pc = "k_appended"
    /\ attn' = [attn EXCEPT !.pc = "v_appended",
                            !.v_cache = attention_kv_cache_append(attn.v_cache, attn.v)]
    /\ UNCHANGED <<cfg, ncalls, kv_cache, past_key_values, gen, smp, quant>>

ViewK ==
    /\ attn.pc = "v_appended"
    /\ attn' = IF ViewOk(attn.k_cache, attn.kv_seq_len)
               THEN [attn EXCEPT !.pc = "k_viewed",
                                 !.k = attention_kv_cache_view(attn.k_cache, attn.kv_seq_len)]
               ELSE [attn EXCEPT !.pc = "error"]
    /\ UNCHANGED <<cfg, ncalls, kv_cache, past_key_values, gen, smp, quant>>

ViewV ==
    /\ attn.pc = "k_viewed"
    /\ attn' = IF ViewOk(attn.v_cache, attn.kv_seq_len)
               THEN [attn EXCEPT !.pc = "v_viewed",
                                 !.v = attention_kv_cache_view(attn.v_cache, attn.kv_seq_len)]
               ELSE [attn EXCEPT !.pc = "error"]
    /\ UNCHANGED <<cfg, ncalls, kv_cache, past_key_values, gen, smp, quant>>

NextLayer == AppendK \/ AppendV \/ ViewK \/ ViewV

SpecLayer == InitLayer /\ [][NextLayer]_vars

\* ---------------------------------------------------- the language-model head
\* Tensors are functions of 0-based indices, one level per axis.
HiddenDims == {0, 1}

LogitIds == {0, 1}

\* relax.op.linear(input, weight) on the last axis of a vector
LinearRow(weight, h) == [v \in LogitIds |-> SumTo([d \in 1..Cardinality(HiddenDims) |->
                                            weight[v][d - 1] * h[d - 1]],
                                           Cardinality(HiddenDims))]

\* Linear.forward on a tensor of three axes
Linear(weight, x) ==
    [i \in DOMAIN x |-> [j \in DOMAIN x[i] |-> LinearRow(weight, x[i][j])]]

\* permute_dims(x, [1, 0, 2])
PermuteDims102(x) ==
    [j \in DOMAIN x[0] |-> [i \in DOMAIN x |-> x[i][j]]]

SliceFirst(x) == [i \in {0} |-> [j \in {0} |-> x[i][0]]]

\* _slice and te_slicing: shape (1, 1, x.shape[-1]), element x[i, seq_len - 1, k]
Slice(x) == [i \in {0} |-> [j \in {0} |-> x[i][Cardinality(DOMAIN x[i]) - 1]]]

\* GPTNeoXForCausalLM.forward, hidden_states of shape [1, seq_len, hidden]
DollyLogits(weight, hidden_states) == Linear(weight, Slice(hidden_states))

\* ChatGLMForConditionalGeneration.forward, hidden_states of shape
\* [seq_len, 1, hidden]
ChatglmLogits(weight, hidden_states) ==
    Slice(PermuteDims102(Linear(weight, hidden_states)))

\* the final hidden state of each of the n input positions, and the weight
\* of the head; "decoding" takes one token, "encoding" any number
InitHead ==
    /\ cfg \in {c \in ConfigsInterleaved :
                    c.max_gen_len = 0 /\ c.stream_interval = 1}
    /\ ncalls = 0
    /\ kv_cache = new_cache
    /\ past_key_values = <<>>
    /\ gen = [s \in Seqs |-> IdleGen]
    /\ smp = IdleSmp
    /\ quant = IdleQuant
    /\ \E n \in 1..3, entry \in {"encoding", "decoding"} :
       \E h \in [0..(n - 1) -> [HiddenDims -> {0, 1}]] :
       \E weight \in [LogitIds -> [HiddenDims -> {0 - 1, 1}]] :
         /\ entry = "decoding" => n = 1
         /\ attn = [pc |-> "hidden", n |-> n, entry |-> entry, h |-> h,
                    weight |-> weight, logits |-> <<>>]

DollyHead ==
    /\ attn.pc = "hidden"
    /\ attn' = [attn EXCEPT
                  !.pc = "dolly_logits",
                  !.logits = DollyLogits(attn.weight, [b \in {0} |-> attn.h])]
    /\ UNCHANGED <<cfg, ncalls, kv_cache, past_key_values, gen, smp, quant>>

ChatglmHead ==
    /\ attn.pc = "hidden"
    /\ attn' = [attn EXCEPT
                  !.pc = "chatglm_logits",
                  !.logits = ChatglmLogits(attn.weight,
                                 [i \in DOMAIN attn.h |-> [b \in {0} |-> attn.h[i]]])]
    /\ UNCHANGED <<cfg, ncalls, kv_cache, past_key_values, gen, smp, quant>>

NextHead == DollyHead \/ ChatglmHead

SpecHead == InitHead /\ [][NextHead]_vars

\* ------------------------------------------------- the parameter store
\* the decimal digits of i, as the f-string writes them
RECURSIVE Digits(_)
Digits(i) == IF i < 10 THEN <<i>> ELSE Digits(i \div 10) \o <<i % 10>>

ParamNameLastDigit(i) == <<"p", "a", "r", "a", "m", "_">> \o <<i % 10>>

\* f"param_{i}"
ParamName(i) == <<"p", "a", "r", "a", "m", "_">> \o Digits(i)

\* lists of params, 0-based, each tensor one number
ParamCounts == {0, 1, 2, 11}

ParamLists == UNION {[0..(n - 1) -> {0, 1}] : n \in ParamCounts}

\* save_params: the dictionary and the meta data handed to
\* tvmjs.dump_ndarray_cache, which replaces the index of the directory; a
\* later assignment to a key replaces an earlier one
SavedParams(params) ==
    [meta |-> [ParamSize |-> Cardinality(DOMAIN params)],
     param_dict |->
        [name \in {ParamName(i) : i \in DOMAIN params} |->
            params[SetMax({i \in DOMAIN params : ParamName(i) = name})]]]

\* load_params on what tvmjs.load_ndarray_cache returns; the empty function
\* stands for the KeyError of a missing name
LoadedParams(dir) ==
    IF \A i \in 0..(dir.meta.ParamSize - 1) : ParamName(i) \in DOMAIN dir.param_dict
    THEN [i \in 0..(dir.meta.ParamSize - 1) |-> dir.param_dict[ParamName(i)]]
    ELSE <<>>

\* the directory holds nothing or the parameters of an earlier build
InitParams ==
    /\ cfg \in {c \in ConfigsInterleaved :
                    c.max_gen_len = 0 /\ c.stream_interval = 1}
    /\ ncalls = 0
    /\ kv_cache = new_cache
    /\ past_key_values = <<>>
    /\ gen = [s \in Seqs |-> IdleGen]
    /\ smp = IdleSmp
    /\ attn = IdleAttn
    /\ \E params \in ParamLists, old \in {n \in ParamCounts : n <= 2} :
         quant = [pc |-> "params", params |-> params,
                  dir |-> SavedParams([i \in 0..(old - 1) |-> 1]),
                  plist |-> <<>>]

\* build.py: utils.save_params(new_params, args.artifact_path)
SaveParams ==
    /\ quant.pc = "params"
    /\ quant' = [quant EXCEPT !.pc = "saved", !.dir = SavedParams(quant.params)]
    /\ UNCHANGED <<cfg, ncalls, kv_cache, past_key_values, gen, smp, attn>>

\* chat.py: const_params = utils.load_params(args.artifact_path, device)
LoadParams ==
    /\ quant.pc = "saved"
    /\ quant' = [quant EXCEPT !.pc = "loaded", !.plist = LoadedParams(quant.dir)]
    /\ UNCHANGED <<cfg, ncalls, kv_cache, past_key_values, gen, smp, attn>>

NextParams == SaveParams \/ LoadParams

SpecParams == InitParams /\ [][NextParams]_vars

\* --------------------------------------------- the quantized matmul operand
\* w_gathered, transpose = True: shape (cols // 8, rows)
w_gathered_transposed(w_scaled) ==
    [j \in 0..(Cardinality(DOMAIN w_scaled[0]) \div WordNibbles - 1) |->
        [i \in DOMAIN w_scaled |-> GatherTo(w_scaled[i], j, WordNibbles)]]

\* scale_bias, transpose = True: shape (n_group, rows)
ScaleBiasTransposed(weight, group_size) ==
    [j \in 0..(NGroup(Cardinality(DOMAIN weight[0]), group_size) - 1) |->
        [i \in DOMAIN weight |->
            F32x2ToBf16x2(F32Bits(scale(weight, i, j, group_size)),
                          F32Bits(min_value(weight, i, j, group_size)))]]

\* topi.transpose and relax.op.permute_dims of a matrix
Transpose(m) == [j \in DOMAIN m[0] |-> [i \in DOMAIN m |-> m[i][j]]]

\* decoding_func_asym.f_decode_asym(i, j), data_transposed = True
f_decode_asym_transposed(data, scale_bias, i, j, group_size) ==
    LET data_f32 == U32ToI4(data[i \div 8][j], i % 8)
        f32x2 == Bf16x2ToF32x2(scale_bias[i \div group_size][j])
    IN  data_f32 * F32Value(f32x2[1]) + F32Value(f32x2[2])

\* te_decode_asym, data_transposed = True: shape (data.shape[0] * 8,
\* data.shape[1]), transposed when transpose_output
te_decode_asym_transposed(data, scale_bias, group_size, transpose_output) ==
    LET w == [i \in 0..(Cardinality(DOMAIN data) * 8 - 1) |->
                [j \in DOMAIN data[0] |->
                    f_decode_asym_transposed(data, scale_bias, i, j, group_size)]]
    IN  IF transpose_output THEN Transpose(w) ELSE w

MatmulOperandUnpermuted(data, scale_bias, group_size, transpose_output) ==
    te_decode_asym_transposed(data, scale_bias, group_size, transpose_output)

\* quantize_matmul: the second argument of the rewritten matmul
MatmulOperand(data, scale_bias, group_size, transpose_output) ==
    IF transpose_output
    THEN Transpose(te_decode_asym_transposed(data, scale_bias, group_size,
                                             transpose_output))
    ELSE te_decode_asym_transposed(data, scale_bias, group_size, transpose_output)

\* quantize_matmul on matmul(x, permute_dims(W)) for a weight parameter W;
\* transpose_output is x.struct_info.shape[-2] != 1
QuantizeMatmul ==
    /\ quant.pc = "weights"
    /\ IF ~GroupDivides(Cols, quant.group_size)
       THEN quant' = [quant EXCEPT !.pc = "AssertionError"]
       ELSE \E mode \in RoundModes, transpose_output \in BOOLEAN :
            \E w_scaled \in {[i \in RowIds |-> [j \in 0..(Cols - 1) |->
                                f_scale_weight(quant.weight, i, j,
                                               quant.group_size, mode)]]} :
            \E data \in {w_gathered_transposed(w_scaled)} :
            \E scale_bias \in {ScaleBiasTransposed(quant.weight, quant.group_size)} :
              quant' = [quant EXCEPT
                          !.pc = IF transpose_output THEN "matmul_transposed"
                                 ELSE "matmul",
                          !.w_scaled = w_scaled,
                          !.data = data,
                          !.scale_bias = scale_bias,
                          !.decoded = MatmulOperand(data, scale_bias,
                                                    quant.group_size,
                                                    transpose_output)]
    /\ UNCHANGED <<cfg, ncalls, kv_cache, past_key_values, gen, smp, attn>>

NextMatmul == QuantizeMatmul

SpecMatmul == InitQuant /\ [][NextMatmul]_vars

\* ------------------------------------------------ ChatGLM position ids
mask_token_id == 130000

gmask_token_id == 130001

bos_token_id == 130004

\* token sequences of up to four tokens: the three special tokens and one
\* ordinary token
GlmTokens == {mask_token_id, gmask_token_id, bos_token_id, 5}

GlmSeqs == UNION {[1..n -> GlmTokens] : n \in 1..4}

\* seq.index(x), 0-based; -1 stands for the ValueError of a missing x
Index(seq, x) ==
    IF \E k \in 1..Len(seq) : seq[k] = x
    THEN SetMin({k \in 1..Len(seq) : seq[k] = x}) - 1
    ELSE 0 - 1

\* mask_token = gMASK if gMASK in seq else MASK; seq.index(mask_token)
MaskPosition(seq) ==
    Index(seq, IF \E k \in 1..Len(seq) : seq[k] = gmask_token_id
               THEN gmask_token_id ELSE mask_token_id)

\* torch.arange(n) + first, as a sequence
Arange(n, first) == [k \in 1..n |-> k - 1 + first]

BlockPositionIdsFromZero(seq_length, context_length) ==
    [k \in 1..context_length |-> 0] \o Arange(seq_length - context_length, 0)

\* torch.cat((zeros(context_length), arange(seq_length - context_length) + 1))
BlockPositionIds(seq_length, context_length) ==
    [k \in 1..context_length |-> 0] \o Arange(seq_length - context_length, 1)

\* get_position_ids for one sequence: the two rows of position ids
get_position_ids(seq, mask_position) ==
    LET seq_length == Len(seq)
        context_length == Index(seq, bos_token_id)
    IN  <<[k \in 1..seq_length |->
              IF k - 1 >= context_length THEN mask_position
              ELSE Arange(seq_length, 0)[k]],
          BlockPositionIds(seq_length, context_length)>>

\* prepare_inputs_chatglm: the position ids; seq.index raises ValueError when
\* the mask or the bos token is missing
PositionIds(seq, is_encoder) ==
    IF MaskPosition(seq) = 0 - 1 \/ Index(seq, bos_token_id) = 0 - 1
    THEN [pc |-> "ValueError", position_ids |-> <<>>]
    ELSE IF ~is_encoder
    THEN [pc |-> "returned",
          position_ids |-> <<<<MaskPosition(seq)>>,
                             <<Len(seq) - Index(seq, bos_token_id)>>>>]
    ELSE [pc |-> "returned",
          position_ids |-> get_position_ids(seq, MaskPosition(seq))]

InitGlm ==
    /\ cfg \in {c \in ConfigsInterleaved :
                    c.max_gen_len = 0 /\ c.stream_interval = 1}
    /\ ncalls = 0
    /\ kv_cache = new_cache
    /\ past_key_values = <<>>
    /\ gen = [s \in Seqs |-> IdleGen]
    /\ smp = IdleSmp
    /\ quant = IdleQuant
    /\ \E tokens \in GlmSeqs :
         attn = [pc |-> "tokens", tokens |-> tokens,
                 encoder |-> [pc |-> "none", position_ids |-> <<>>],
                 decoder |-> [pc |-> "none", position_ids |-> <<>>]]

\* prepare_inputs_chatglm(..., is_encoder=True)
PrepareEncoder ==
    /\ attn.pc = "tokens"
    /\ attn.encoder.pc = "none"
    /\ attn' = [attn EXCEPT !.encoder = PositionIds(attn.tokens, TRUE)]
    /\ UNCHANGED <<cfg, ncalls, kv_cache, past_key_values, gen, smp, quant>>

\* prepare_inputs_chatglm(..., is_encoder=False)
PrepareDecoder ==
    /\ attn.pc = "tokens"
    /\ attn.decoder.pc = "none"
    /\ attn' = [attn EXCEPT !.decoder = PositionIds(attn.tokens, FALSE)]
    /\ UNCHANGED <<cfg, ncalls, kv_cache, past_key_values, gen, smp, quant>>

NextGlm == PrepareEncoder \/ PrepareDecoder

SpecGlm == InitGlm /\ [][NextGlm]_vars

\* ================================================================ claims
Gens == {gen[s] : s \in Seqs}

CallIdx(g) == 1..Len(g.calls)

\* C1: after the prefill of a p-token prompt every key and value cache holds
\* p rows, after d further decode calls p + d rows, and that is the
\* total_length passed to the call.
C1_CacheLength ==
    \A g \in Gens : \A k \in CallIdx(g) :
        /\ g.calls[k].lens = {g.start_pos + k - 1}
        /\ g.calls[k].total = g.start_pos + k - 1

\* the same statement for the compiled backend alone
CompiledCacheLength == cfg.backend = "tvm" => C1_CacheLength

CompiledCacheLengthWitness ==
    /\ cfg.backend = "tvm"
    /\ \E g \in Gens : g.cid = 2 /\ Len(g.calls) = 3 /\ g.start_pos = 2

\* C2: the first model invocation of a sequence is the prefill, given the
\* whole tokenized prompt; every later invocation is a decode step; once the
\* generator is exhausted nothing of it changes any more.
C2_Shape ==
    \A g \in Gens :
        /\ Len(g.sampled) <= Len(g.calls)
        /\ \A k \in CallIdx(g) :
             IF k = 1
             THEN /\ g.calls[k].clear_cache
                  /\ g.calls[k].inputs = Encode(g.prompt)
                  /\ g.calls[k].total = Len(g.prompt)
             ELSE /\ ~g.calls[k].clear_cache
                  /\ Len(g.calls[k].inputs) = 1

C2_Terminal ==
    [][\A s \in Seqs :
         (gen[s].pc = "done" /\ gen'[s].cid = gen[s].cid) => gen'[s] = gen[s]]_vars

C2_PrefillOnce == []C2_Shape /\ C2_Terminal

C2_Witness ==
    \E g \in Gens : g.pc = "done" /\ Len(g.calls) = 3 /\ Len(g.calls[1].inputs) = 2

\* C3: a decode step passes exactly the token sampled by the step before it,
\* and a total_length one above that of the step before it.
C3_DecodeStep ==
    \A g \in Gens : \A k \in CallIdx(g) :
        k > 1 => /\ g.calls[k].inputs = <<g.sampled[k - 1]>>
                 /\ g.calls[k].total = g.calls[k - 1].total + 1

C3_Witness ==
    \E g \in Gens : Len(g.calls) = 3 /\ g.sampled[1] # g.sampled[2]

\* C4: when the sampled token is a stop token the step yields its output and
\* the generator stops: no model invocation, token or yield follows.
StopTokenHit(g) ==
    /\ g.sampled # <<>>
    /\ g.sampled[Len(g.sampled)] \in StopTokens(cfg.stop_tokens)

C4_Yielded ==
    \A g \in Gens :
        StopTokenHit(g) =>
            /\ g.pc \in {"yield", "done"}
            /\ g.nyield >= 1
            /\ g.out_pos = g.start_pos + Len(g.sampled) - 1

C4_NothingFollows ==
    [][\A s \in Seqs :
         (StopTokenHit(gen[s]) /\ gen'[s].cid = gen[s].cid) =>
            /\ gen'[s].calls = gen[s].calls
            /\ gen'[s].sampled = gen[s].sampled
            /\ gen'[s].nyield = gen[s].nyield
            /\ gen'[s].pc = "done"]_vars

C4_StopToken == []C4_Yielded /\ C4_NothingFollows

C4_Witness ==
    \E g \in Gens :
        /\ g.pc = "done"
        /\ StopTokenHit(g)
        /\ Len(g.sampled) = 2
        /\ cfg.max_gen_len = MaxGenLen

\* C5: generate terminates, after at most max_gen_len model invocations and
\* at most max_gen_len generated tokens.
C5_Bounded ==
    \A g \in Gens :
        /\ Len(g.calls) <= cfg.max_gen_len
        /\ Len(g.sampled) <= cfg.max_gen_len

C5_Terminates ==
    /\ []C5_Bounded
    /\ \A s \in Seqs : (gen[s].pc = "created") ~> (gen[s].pc = "done")

C5_Witness ==
    \E g \in Gens :
        /\ g.pc = "done"
        /\ cfg.max_gen_len = MaxGenLen
        /\ Len(g.sampled) = MaxGenLen
        /\ cfg.stop_str # <<>>

\* C6: when the decoded text holds stop_str after the echoed prompt,
\* generate stops and the yielded output holds no stop_str after the prompt.
ContainsAfter(text, sub, start) ==
    \E i \in start..Len(text) : OccursAt(text, sub, i)

C6_StopStr ==
    \A g \in Gens :
        (/\ g.pc = "yield"
         /\ cfg.stop_str # <<>>
         /\ ContainsAfter(Decode(SubSeq(g.tokens, 1, g.cur_pos + 1)),
                          cfg.stop_str, Len(g.prompt)))
        => /\ g.stopped
           /\ ~ContainsAfter(g.output, cfg.stop_str, Len(g.prompt))

\* C7: a sequence starts from an empty cache and none of its attention steps
\* sees a row produced by an earlier generate call, on either backend.
C7_FreshCache ==
    \A g \in Gens : \A k \in CallIdx(g) :
        /\ k = 1 => g.calls[k].pre = {0}
        /\ g.calls[k].owners \subseteq {g.cid}

\* C8: with two sequences interleaved on one wrapper, every attention step
\* of a sequence reads only rows appended by that sequence.
C8_NoSharedCache ==
    \A s \in Seqs : \A k \in CallIdx(gen[s]) :
        \A c \in gen[s].calls[k].owners : c = gen[s].cid

\* C9: with temperature 0 the sampled token holds the maximal logit, and
\* sampling the same logits again gives the same token.
C9_ArgmaxDeterministic ==
    (smp.pc = "step" /\ smp.temperature = 0) =>
        /\ \A k \in 1..Len(smp.picks) : \A u \in Vocab :
              smp.logits[u] <= smp.logits[smp.picks[k]]
        /\ \A j, k \in 1..Len(smp.picks) : smp.picks[j] = smp.picks[k]

C9_Witness ==
    /\ smp.pc = "step"
    /\ smp.temperature = 0
    /\ Len(smp.picks) = 2
    /\ \E t, u \in Vocab :
         /\ t # u
         /\ smp.logits[t] = smp.logits[u]
         /\ \A v \in Vocab : smp.logits[v] <= smp.logits[t]

\* C10: with top_p = 1 sample_top_p zeroes nothing: the vector it samples
\* from is the sorted input vector.
C10_TopPOne ==
    (smp.pc \in {"sampled", "error"} /\ smp.top_p = TopPDen) =>
        \A k \in 1..VocabSize :
            smp.probs_sort[k] =
                Fraction(smp.probs[smp.probs_idx[k]], Total(smp.probs))

C10_Witness ==
    /\ smp.pc = "sampled"
    /\ smp.top_p = TopPDen
    /\ \A t \in Vocab : t # smp.next_token => smp.probs[smp.next_token] < smp.probs[t]

\* C11: with top_p strictly below the probability of the most probable
\* token, sample_top_p zeroes every entry but the first of the sorted vector
\* and returns a token holding the maximal probability.
MaxProb(w) == SetMax({w[t] : t \in Vocab})

TopPBelowMax(w, pn) == pn * Total(w) < MaxProb(w) * TopPDen

C11_TopPBelowMax ==
    (smp.pc \in {"sampled", "error"} /\ TopPBelowMax(smp.probs, smp.top_p)) =>
        /\ smp.pc = "sampled"
        /\ smp.probs[smp.next_token] = MaxProb(smp.probs)
        /\ smp.probs_sort[1] = <<1, 1>>
        /\ \A k \in 2..VocabSize : smp.probs_sort[k] = <<0, 1>>

C11_Witness ==
    /\ smp.pc = "sampled"
    /\ TopPBelowMax(smp.probs, smp.top_p)
    /\ smp.top_p > 0
    /\ smp.next_token # Argmax(smp.probs)
    /\ \A t \in Vocab : smp.probs[t] > 0

\* C12: when the logits of a model step hold a NaN or an infinite value the
\* step ends in an error and no token is sampled from them.
C12_NumericFault ==
    (smp.pc \in {"sampled", "error"} /\ HasFault(smp.logits)) =>
        smp.pc = "error"

\* C13: in every step of the compiled model the rotary kernel reads only
\* rows of the table, rows below max_sequence_length.
C13_RotaryInBounds ==
    cfg.backend = "tvm" =>
        \A g \in Gens : \A k \in CallIdx(g) :
            g.calls[k].ok =>
                RotaryReads(RotaryOffset(g.calls[k].total, Len(g.calls[k].inputs)),
                            Len(g.calls[k].inputs)) \subseteq RotaryTableRows

\* C17: the conversion of a float32 pattern gives the 16-bit value nearest to
\* pattern / 2^16, the even one of two equally near; the conversion of the
\* first argument is in the low half of the packed word, that of the second
\* in the high half, and unpacking returns each as the high half of a float32.
RoundUp16(hi, lo) == lo > 32768 \/ (lo = 32768 /\ hi % 2 = 1)

Nearest16(x) ==
    LET hi == BitsToNat(x, 16, 16)
        lo == BitsToNat(x, 0, 16)
    IN  IF RoundUp16(hi, lo) /\ hi < 65535 THEN hi + 1 ELSE hi

C17_Bf16RoundToNearestEven ==
    /\ quant.pc \in {"packed", "unpacked"} =>
          /\ BitsToNat(quant.packed, 0, 16) = Nearest16(quant.v0)
          /\ BitsToNat(quant.packed, 16, 16) = Nearest16(quant.v1)
    /\ quant.pc = "unpacked" =>
          /\ quant.f32x2[1] = U32OfHalves(Nearest16(quant.v0), 0)
          /\ quant.f32x2[2] = U32OfHalves(Nearest16(quant.v1), 0)

\* the same statement for the patterns that are not a NaN
IsNaN32(x) == BitsToNat(x, 23, 8) = 255 /\ BitsToNat(x, 0, 23) # 0

Bf16RoundsNumbers ==
    (quant.pc \in {"packed", "unpacked"} /\ ~IsNaN32(quant.v0) /\ ~IsNaN32(quant.v1))
        => C17_Bf16RoundToNearestEven

Bf16RoundsNumbersWitness ==
    /\ quant.pc = "unpacked"
    /\ ~IsNaN32(quant.v0) /\ ~IsNaN32(quant.v1)
    /\ BitsToNat(quant.v0, 0, 16) = 32768
    /\ BitsToNat(quant.packed, 0, 16) = BitsToNat(quant.v0, 16, 16) + 1
    /\ BitsToNat(quant.v1, 0, 16) = 32768
    /\ BitsToNat(quant.packed, 16, 16) = BitsToNat(quant.v1, 16, 16)

\* C14: take_decode returns the rows of the full decode at the given
\* indices: taken[i][j] = decode(data, scale_bias)[indices[i]][j].
C14_TakeDecode ==
    quant.pc = "taken" =>
        \A i \in DOMAIN quant.indices : \A j \in 0..(Cols - 1) :
            quant.taken[i][j] =
                te_decode_asym(quant.data, quant.scale_bias,
                               quant.group_size)[quant.indices[i]][j]

C14_Witness ==
    /\ quant.pc = "taken"
    /\ DOMAIN quant.indices = {0, 1}
    /\ quant.indices[0] = 1
    /\ quant.indices[1] = 0
    /\ \E j \in 0..(Cols - 1) : quant.taken[0][j] # quant.taken[1][j]

\* C15: every element of decode(encode(W)) differs from the element of W by
\* at most the scale of its group.
AbsDiff(a, b) == IF a >= b THEN a - b ELSE b - a

C15_ErrorWithinScale ==
    quant.pc = "decoded" =>
        \A i \in RowIds : \A j \in 0..(Cols - 1) :
            AbsDiff(quant.decoded[i][j], quant.weight[i][j])
                <= (max_value(quant.weight, i, j \div quant.group_size, quant.group_size)
                    - min_value(quant.weight, i, j \div quant.group_size, quant.group_size))
                   \div MaxIndex

\* C16: a weight whose column count the group size does not divide is
\* rejected when the model is built: encoding ends in the assertion error,
\* nothing follows it, and no request ever runs on such a weight.
C16_NoRequest ==
    quant.pc \in {"encoded", "decoded", "taken"} => Cols % quant.group_size = 0

C16_Rejected ==
    [][/\ (quant.pc = "weights" /\ Cols % quant.group_size # 0)
            => quant'.pc = "AssertionError"
       /\ quant.pc = "AssertionError" => quant' = quant]_vars

C16_ConfigurationError == []C16_NoRequest /\ C16_Rejected

C16_Witness == quant.pc = "AssertionError" /\ quant.group_size = 3

\* C18: every index computed by encode is in 0..15 and is the nibble at
\* position col % 8 of data[row][col / 8] that decode extracts.
C18_NibbleRoundTrip ==
    quant.pc \in {"encoded", "decoded", "taken"} =>
        \A i \in RowIds : \A j \in 0..(Cols - 1) :
            /\ quant.w_scaled[i][j] \in 0..15
            /\ U32ToI4(quant.data[i][j \div 8], j % 8) = quant.w_scaled[i][j]

C18_Witness ==
    /\ quant.pc = "decoded"
    /\ \E i \in RowIds :
         /\ quant.w_scaled[i][7] >= 8
         /\ quant.w_scaled[i][9] = 15
         /\ quant.w_scaled[i][10] = 7
         /\ quant.w_scaled[i][11] = 8

\* C19: in the prefill of the GPT-NeoX model the mask entry for query i and
\* key j is the masking value when j > i and 0 when j <= i, and the attention
\* weight from i to every later position is 0.
C19_CausalMask ==
    attn.pc = "dolly" =>
        \A i, j \in 0..(attn.tgt_len - 1) :
            /\ attn.mask[i][j] = (IF j > i THEN MinValue ELSE 0)
            /\ j > i => attn.zero[i][j]

C19_Witness ==
    /\ attn.pc = "dolly"
    /\ attn.tgt_len = 3
    /\ attn.scores[0][0] < 0
    /\ attn.scores[0][1] > 0
    /\ attn.scores[0][2] > 0
    /\ ~attn.zero[2][0]

\* C20: in both attention implementations the score of a masked position
\* before the softmax is the smallest finite value of the element type, or
\* below it.
C20_MaskedAtMostMin ==
    attn.pc \in {"dolly", "chatglm"} =>
        \A i, j \in 0..(attn.tgt_len - 1) :
            attn.masked[i][j] => attn.pre[i][j] <= MinValue

\* the same statement for the GPT-NeoX attention alone
DollyMaskedAtMostMin == attn.pc = "dolly" => C20_MaskedAtMostMin

\* C21: the rotary embedding with offset 0 leaves the vector at sequence
\* position 0 unchanged in every head dimension, and at every position and
\* offset it leaves the dimensions j >= rotary_ndim unchanged.
C21_RotaryIdentity ==
    attn.pc = "rotary" =>
        /\ attn.offset = 0 => attn.embed[0] = attn.x[0]
        /\ \A i \in DOMAIN attn.x : \A j \in attn.rotary_ndim..(head_dim - 1) :
               attn.embed[i][j] = attn.x[i][j]

C21_Witness ==
    /\ attn.pc = "rotary"
    /\ attn.offset = 0
    /\ attn.rotary_ndim < head_dim
    /\ 1 \in DOMAIN attn.x
    /\ attn.embed[1] # attn.x[1]
    /\ attn.embed[0] = attn.x[0]

\* C22: in every step that generate issues to the compiled model, the rotary
\* offset total_length - seq_len is the number of rows every cache holds
\* before the step's append, and it is 0 for a prefill.
C22_RotaryOffset ==
    cfg.backend = "tvm" =>
        \A s \in Seqs : \A k \in DOMAIN gen[s].calls :
            /\ gen[s].calls[k].pre =
                 {RotaryOffset(gen[s].calls[k].total, Len(gen[s].calls[k].inputs))}
            /\ gen[s].calls[k].clear_cache =>
                 RotaryOffset(gen[s].calls[k].total, Len(gen[s].calls[k].inputs)) = 0

\* the statement of C22 when each generator is exhausted before the next
\* generate call, as chat() does; checked under Spec
SequentialRotaryOffset == C22_RotaryOffset

SequentialRotaryOffsetWitness ==
    /\ cfg.backend = "tvm"
    /\ \E s \in Seqs : /\ gen[s].cid = 2
                       /\ Len(gen[s].calls) = 3
                       /\ gen[s].calls[3].pre = {3}
                       /\ ~gen[s].calls[3].clear_cache

\* C23: within one attention call with a cache, both appends are complete
\* when a view is taken, and the keys and values used for the scores are the
\* rows 0..total_length of the cache, ending with the rows appended by this
\* call, not the freshly projected tensors alone.
C23_UsesCacheRows ==
    /\ attn.pc \in {"k_viewed", "v_viewed"} =>
         /\ attn.k = SubSeq(attn.k_cache, 1, attn.kv_seq_len)
         /\ Len(attn.k) = attn.kv_seq_len
         /\ SubSeq(attn.k, attn.kv_seq_len - attn.seq_len + 1, attn.kv_seq_len) = attn.new
         /\ SubSeq(attn.v_cache, Len(attn.v_cache) - attn.seq_len + 1,
                   Len(attn.v_cache)) = attn.new
    /\ attn.pc = "v_viewed" =>
         /\ attn.v = SubSeq(attn.v_cache, 1, attn.kv_seq_len)
         /\ Len(attn.v) = attn.kv_seq_len
         /\ SubSeq(attn.v, attn.kv_seq_len - attn.seq_len + 1, attn.kv_seq_len) = attn.new

\* C23, the order of the calls: a view step is only taken from a state where
\* both caches end with the rows of this call.
C23_AppendBeforeView ==
    [][(attn.pc = "v_appended" \/ attn.pc = "k_viewed") =>
          /\ Len(attn.k_cache) >= attn.seq_len
          /\ SubSeq(attn.k_cache, Len(attn.k_cache) - attn.seq_len + 1,
                    Len(attn.k_cache)) = attn.new
          /\ SubSeq(attn.v_cache, Len(attn.v_cache) - attn.seq_len + 1,
                    Len(attn.v_cache)) = attn.new]_vars

C23_AppendThenView == []C23_UsesCacheRows /\ C23_AppendBeforeView

C23_Witness ==
    /\ attn.pc = "v_viewed"
    /\ attn.seq_len = 1
    /\ attn.kv_seq_len = 3
    /\ attn.k # attn.new
    /\ attn.v[1] # attn.new[1]

\* C24: for an input of n >= 1 tokens the forward pass of either model, in
\* the encoding and in the decoding function, returns logits of shape
\* [1, 1, vocab] that are the head applied to input position n - 1.
C24_LastPositionLogits ==
    attn.pc \in {"dolly_logits", "chatglm_logits"} =>
        /\ DOMAIN attn.logits = {0}
        /\ DOMAIN attn.logits[0] = {0}
        /\ DOMAIN attn.logits[0][0] = LogitIds
        /\ attn.logits[0][0] = LinearRow(attn.weight, attn.h[attn.n - 1])

C24_Witness ==
    /\ attn.pc = "chatglm_logits"
    /\ attn.n = 3
    /\ attn.logits[0][0] # LinearRow(attn.weight, attn.h[0])
    /\ attn.logits[0][0] # LinearRow(attn.weight, attn.h[1])

\* C25: loading a saved parameter list returns a list of the same length
\* (the stored ParamSize) with the same tensors in the same order.
C25_ParamsRoundTrip ==
    quant.pc = "loaded" =>
        /\ DOMAIN quant.plist = DOMAIN quant.params
        /\ Cardinality(DOMAIN quant.plist) = quant.dir.meta.ParamSize
        /\ \A i \in DOMAIN quant.params : quant.plist[i] = quant.params[i]

C25_Witness ==
    /\ quant.pc = "loaded"
    /\ Cardinality(DOMAIN quant.params) = 11
    /\ quant.params[0] # quant.params[10]
    /\ quant.params[1] # quant.params[10]
    /\ quant.plist[10] = quant.params[10]

\* C26: after every step of the compiled backend the key and value caches
\* of every layer have the same length.
C26_EqualCacheLengths ==
    cfg.backend = "tvm" =>
        \A b1, b2 \in Buffers : Len(kv_cache[b1]) = Len(kv_cache[b2])

\* the statement of C26 when each generator is exhausted before the next
\* generate call; checked under Spec
SequentialEqualCacheLengths == C26_EqualCacheLengths

SequentialEqualCacheLengthsWitness ==
    /\ cfg.backend = "tvm"
    /\ \A b \in Buffers : Len(kv_cache[b]) = 3
    /\ \E s \in Seqs : gen[s].cid = 2

\* C27: for every probability vector and every top_p >= 0, sample_top_p
\* keeps the most probable token, so the sum it divides by is positive, a
\* token is returned, and the returned token is one whose probability was
\* kept.
KeptSum ==
    SumTo(MaskedSort(smp.probs, smp.top_p, smp.probs_idx), VocabSize)

C27_TopTokenKept ==
    smp.pc \in {"sampled", "error"} =>
        /\ smp.pc = "sampled"
        /\ smp.probs[smp.probs_idx[1]] = MaxProb(smp.probs)
        /\ smp.probs_sort[1][1] > 0
        /\ KeptSum > 0
        /\ \A k \in 1..VocabSize : smp.probs_sort[k][2] > 0
        /\ \E k \in 1..VocabSize :
              /\ smp.probs_idx[k] = smp.next_token
              /\ smp.probs_sort[k] = Fraction(smp.probs[smp.next_token], KeptSum)
              /\ smp.probs_sort[k][1] > 0

C27_Witness ==
    /\ smp.pc = "sampled"
    /\ smp.top_p = 0
    /\ \A t \in Vocab : smp.probs[t] > 0
    /\ \E t \in Vocab : smp.probs[t] < MaxProb(smp.probs)
    /\ smp.probs_sort[1] = <<1, 1>>
    /\ smp.probs_sort[2] = <<0, 1>>

C27_WitnessAboveOne ==
    /\ smp.pc = "sampled"
    /\ smp.top_p > TopPDen
    /\ smp.probs[smp.next_token] < MaxProb(smp.probs)

\* C28: the operand that the quantized rewrite of matmul(x, permute_dims(W))
\* passes to matmul is the transpose of the dequantized W, element for
\* element, whether transpose_output is true or false.
Dequantized(weight, w_scaled, group_size) ==
    te_decode_asym(w_gathered(w_scaled), ScaleBias(weight, group_size), group_size)

C28_MatmulOperand ==
    quant.pc \in {"matmul", "matmul_transposed"} =>
        \E w \in {Dequantized(quant.weight, quant.w_scaled, quant.group_size)} :
            /\ DOMAIN quant.decoded = 0..(Cols - 1)
            /\ \A i \in 0..(Cols - 1) :
                  /\ DOMAIN quant.decoded[i] = RowIds
                  /\ \A j \in RowIds : quant.decoded[i][j] = w[j][i]

C28_Witness ==
    /\ quant.pc = "matmul_transposed"
    /\ quant.group_size = 8
    /\ quant.decoded[1][0] # quant.decoded[1][1]
    /\ quant.decoded[1][0] # quant.decoded[9][0]
    /\ quant.decoded[9][1] # quant.decoded[1][1]

\* C29: for a ChatGLM token sequence that holds the mask and the bos token,
\* the position ids of a decode step are the last column of the two rows of
\* position ids that the prefill computation gives for the same sequence.
GlmBothPrepared ==
    /\ attn.pc = "tokens"
    /\ attn.encoder.pc = "returned"
    /\ attn.decoder.pc = "returned"

C29_DecodeIsLastColumn ==
    GlmBothPrepared =>
        /\ Len(attn.encoder.position_ids[1]) = Len(attn.tokens)
        /\ Len(attn.encoder.position_ids[2]) = Len(attn.tokens)
        /\ attn.decoder.position_ids[1] =
              <<attn.encoder.position_ids[1][Len(attn.tokens)]>>
        /\ attn.decoder.position_ids[2] =
              <<attn.encoder.position_ids[2][Len(attn.tokens)]>>

C29_Witness ==
    /\ GlmBothPrepared
    /\ attn.tokens = <<5, gmask_token_id, bos_token_id, 5>>
    /\ attn.decoder.position_ids = <<<<1>>, <<2>>>>
    /\ attn.encoder.position_ids = <<<<0, 1, 1, 1>>, <<0, 0, 1, 2>>>>

\* C30: for max_gen_len >= 1 generate yields at its first step and at its
\* final step, whatever stream_interval is: once a token is generated an
\* output has been yielded, and the last output of a finished generator is
\* computed from all the tokens it generated.
OutputOfAll(g) ==
    LET full == Decode(SubSeq(g.tokens, 1, g.start_pos + Len(g.sampled)))
        pos == StopPos(full, cfg.stop_str, g.prompt)
    IN  IF pos # 0 - 1 THEN Prefix(full, pos) ELSE full

C30_FinalYield ==
    \A g \in Gens :
        (cfg.max_gen_len >= 1 /\ g.pc \in {"loop", "yield", "done"}) =>
            /\ g.sampled # <<>> => g.nyield >= 1
            /\ Len(g.sampled) = 1 => g.out_pos = g.start_pos
            /\ (g.pc = "done" /\ g.sampled # <<>>) =>
                  /\ g.out_pos = g.start_pos + Len(g.sampled) - 1
                  /\ g.output = OutputOfAll(g)

C30_Witness ==
    \E g \in Gens :
        /\ g.pc = "done"
        /\ cfg.stream_interval = 2
        /\ cfg.max_gen_len = 2
        /\ Len(g.sampled) = 2
        /\ ~g.stopped
        /\ g.nyield = 2

====
